---------------------------- MODULE Spec2Model ----------------------------
(***************************************************************************)
(* The interactive reading session of golang-rss-reader (src/main.go):     *)
(* the bubbletea model struct, its Update and View methods and the helpers *)
(* they call.  One TLA+ action per message kind that Update distinguishes. *)
(*                                                                         *)
(* Go slices are 0-based, TLA+ sequences 1-based: element i of a Go slice  *)
(* is element i+1 of the sequence that models it.                          *)
(*                                                                         *)
(* The libraries main.go calls are modelled by what the calls do:          *)
(*   viewport (bubbles): SetContent keeps YOffset unless it lies past the  *)
(*     last line; Update reacts to the scroll keys only, never to a        *)
(*     WindowSizeMsg; the highest offset is max(0, lines - Height).        *)
(*   lipgloss: the width of a rendered segment is its text plus its        *)
(*     paddings; Width(n) with n <= 0 renders "" as the empty string.      *)
(*   html-to-markdown, glamour: each call returns or fails; which one is   *)
(*     an input of the step that makes the call.                           *)
(***************************************************************************)
EXTENDS Integers, Sequences, FiniteSets, TLC

VARIABLES
    m,          \* the model struct held by the bubbletea program
    status,     \* "running" | "quit" | "fatal" | "panic": the event loop
    rerender,   \* the local `rerender` at the end of the last Update
    term,       \* the terminal's current size [Width, Height]
    resized,    \* history: a WindowSizeMsg has been processed
    stages,     \* history: renderContent has been entered at least once
    rights      \* history: MoveRight events so far, NoCount after a MoveLeft

vars == <<m, status, rerender, term, resized, stages, rights>>

---------------------------------------------------------------------------
(* Bounds of the model *)

MaxItems == 3
MaxFeeds == 2
MaxLines == 3

\* terminal sizes delivered by WindowSizeMsg: heights around the header and
\* footer margin (6), widths around the widths the footer's segments
\* consume (52 to 67 with the items and paddings below)
Widths  == {51, 52, 61}
Heights == {5, 7, 8}

---------------------------------------------------------------------------
(* Program constants *)

headerHeight == 3
footerHeight == 3
useHighPerformanceRenderer == FALSE

\* a nil *time.Time; time.Unix(0, 0)
Nil == -1
Epoch == 0

\* viper defaults for horzPadding and vertPadding are 2 and 0; the model
\* draws the configuration from these
HorzPaddings == {0, 1}
VertPaddings == {0}

---------------------------------------------------------------------------
(* The feed data handed to the session (gofeed.Feed, gofeed.Item) *)

Min(a, b) == IF a < b THEN a ELSE b
Max(a, b) == IF a > b THEN a ELSE b

\* html identifies Description + "<hr>" + Content; lines is the number of
\* lines glamour renders it to
Catalogue ==
    << [Title |-> "first",  html |-> 1, lines |-> 1, Authors |-> <<>>,
        PublishedParsed |-> Nil, UpdatedParsed |-> Nil],
       [Title |-> "second", html |-> 2, lines |-> MaxLines,
        Authors |-> <<"ann", "bo">>,
        PublishedParsed |-> 300, UpdatedParsed |-> 200],
       [Title |-> "third",  html |-> 3, lines |-> 2, Authors |-> <<"ann">>,
        PublishedParsed |-> 300, UpdatedParsed |-> Nil],
       [Title |-> "fourth", html |-> 4, lines |-> MaxLines, Authors |-> <<>>,
        PublishedParsed |-> Nil, UpdatedParsed |-> 200] >>

\* a feed of n items: a window of the catalogue starting after `off`
Feed(n, off) ==
    [Items |-> [i \in 1..n |-> Catalogue[((off + i - 1) % Len(Catalogue)) + 1]]]

Feeds == {Feed(n, off) : n \in 0..MaxItems, off \in 0..(Len(Catalogue) - 1)}

\* further feeds of a collection
OtherFeeds == {Feed(MaxItems, 1)}

FeedCollections ==
    {<<>>} \cup
    UNION {{<<f>> \o rest : f \in Feeds, rest \in [1..k -> OtherFeeds]}
           : k \in 0..(MaxFeeds - 1)}

FeedLen(feed) == Len(feed.Items)

\* m.feedSlice[m.feedSliceIndex] panics when the index is out of range
InRange(mm) == mm.feedSliceIndex + 1 \in DOMAIN mm.feedSlice

\* mutant: the feed read is the last one of the collection
CurrentFeed_Last(mm) == mm.feedSlice[Len(mm.feedSlice)]

CurrentFeed(mm) == mm.feedSlice[mm.feedSliceIndex + 1]

---------------------------------------------------------------------------
(* viewport.Model *)

\* glamour.Render(content, "dark") is given no width: the renderer wraps at
\* its default
GlamourDefaultWidth == 80

\* width is the width the text was wrapped at, 0 for text that was not
\* rendered
NoContent   == [text |-> "", html |-> 0, lines |-> 0, width |-> 0]
Placeholder == [text |-> "No content here!", html |-> 0, lines |-> 1,
                width |-> 0]
Styled(item) == [text |-> "styled", html |-> item.html, lines |-> item.lines,
                 width |-> GlamourDefaultWidth]

ZeroViewport ==
    [Width |-> 0, Height |-> 0, YOffset |-> 0, YPosition |-> 0,
     content |-> NoContent]

maxYOffset(vp) == Max(0, vp.content.lines - vp.Height)

\* viewport.SetContent
SetContent(vp, c) ==
    LET v1 == [vp EXCEPT !.content = c]
    IN  IF v1.YOffset > c.lines - 1
        THEN [v1 EXCEPT !.YOffset = maxYOffset(v1)]
        ELSE v1

\* viewport.LineDown(1) / LineUp(1)
LineDown(vp) ==
    IF vp.YOffset >= maxYOffset(vp) THEN vp
    ELSE [vp EXCEPT !.YOffset = Min(@ + 1, maxYOffset(vp))]

LineUp(vp) ==
    IF vp.YOffset <= 0 THEN vp
    ELSE [vp EXCEPT !.YOffset = Max(@ - 1, 0)]

\* viewport.Update: the pager keys scroll, every other message is ignored
ViewportUpdate(vp, msg) ==
    IF msg.type = "key" /\ msg.key = "down" THEN LineDown(vp)
    ELSE IF msg.type = "key" /\ msg.key = "up" THEN LineUp(vp)
    ELSE vp

---------------------------------------------------------------------------
(* model.Update *)

\* mutant: the bound on MoveRight is the item count, not the last index
getFeedLengthOrZero_Count(feed) == FeedLen(feed)

getFeedLengthOrZero(feed) ==
    IF FeedLen(feed) - 1 > 0 THEN FeedLen(feed) - 1 ELSE 0

\* what a branch of Update hands on: the struct, the local rerender, and
\* how the handler stands ("running", or the way it ended early)
Step(mm, rr, st) == [m |-> mm, rerender |-> rr, status |-> st, stages |-> FALSE]

\* mutant: MoveLeft goes back to the first item
KeyLeft_Home(mm) ==
    IF mm.feedIndex > 0
    THEN Step([mm EXCEPT !.feedIndex = 0], TRUE, "running")
    ELSE Step(mm, FALSE, "running")

\* case key.Matches(msg, defaultKeyMap.Left)
KeyLeft(mm) ==
    IF mm.feedIndex > 0
    THEN Step([mm EXCEPT !.feedIndex = @ - 1], TRUE, "running")
    ELSE Step(mm, FALSE, "running")

\* mutant: MoveRight does nothing while the help view is shown
KeyRight_IgnoredInHelp(mm) ==
    IF ~InRange(mm) THEN Step(mm, FALSE, "panic")
    ELSE IF ~mm.help.ShowAll
            /\ mm.feedIndex < getFeedLengthOrZero(CurrentFeed(mm))
    THEN Step([mm EXCEPT !.feedIndex = @ + 1], TRUE, "running")
    ELSE Step(mm, FALSE, "running")

\* mutant: MoveRight at the last item wraps around to the first
KeyRight_Wrap(mm) ==
    IF ~InRange(mm) THEN Step(mm, FALSE, "panic")
    ELSE IF mm.feedIndex < getFeedLengthOrZero(CurrentFeed(mm))
    THEN Step([mm EXCEPT !.feedIndex = @ + 1], TRUE, "running")
    ELSE IF mm.feedIndex > 0
    THEN Step([mm EXCEPT !.feedIndex = 0], TRUE, "running")
    ELSE Step(mm, FALSE, "running")

\* mutant: MoveRight advances the index and forgets to mark the content
\* for rendering
KeyRight_NoRerender(mm) ==
    IF ~InRange(mm) THEN Step(mm, FALSE, "panic")
    ELSE IF mm.feedIndex < getFeedLengthOrZero(CurrentFeed(mm))
    THEN Step([mm EXCEPT !.feedIndex = @ + 1], FALSE, "running")
    ELSE Step(mm, FALSE, "running")

\* case key.Matches(msg, defaultKeyMap.Right)
KeyRight(mm) ==
    IF ~InRange(mm) THEN Step(mm, FALSE, "panic")
    ELSE IF mm.feedIndex < getFeedLengthOrZero(CurrentFeed(mm))
    THEN Step([mm EXCEPT !.feedIndex = @ + 1], TRUE, "running")
    ELSE Step(mm, FALSE, "running")

\* mutant: the help key switches the help view on and never off
KeyHelp_On(mm) ==
    Step([mm EXCEPT !.help.ShowAll = TRUE], FALSE, "running")

\* case key.Matches(msg, defaultKeyMap.Help)
KeyHelp(mm) ==
    Step([mm EXCEPT !.help.ShowAll = ~@], FALSE, "running")

\* mutant: the quit key falls through instead of returning tea.Quit
KeyQuit_NoReturn(mm) == Step(mm, FALSE, "running")

\* case key.Matches(msg, defaultKeyMap.Quit): return m, tea.Quit
KeyQuit(mm) == Step(mm, FALSE, "quit")

\* case tea.WindowSizeMsg
WindowSize(mm, msg) ==
    LET verticalMargins == headerHeight + footerHeight
        m1 == [mm EXCEPT !.help.Width = msg.Width]
    IN  IF ~m1.ready
        THEN Step([m1 EXCEPT !.viewport =
                       [ZeroViewport EXCEPT
                           !.Width = msg.Width,
                           !.Height = msg.Height - verticalMargins,
                           !.YPosition = headerHeight + 1]],
                  TRUE, "running")
        ELSE Step([m1 EXCEPT !.viewport.Width = msg.Width,
                             !.viewport.Height = msg.Height - verticalMargins],
                  FALSE, "running")

\* the switch on the message
Dispatch(mm, msg) ==
    IF msg.type = "size" THEN WindowSize(mm, msg)
    ELSE IF msg.key = "left"  THEN KeyLeft(mm)
    ELSE IF msg.key = "right" THEN KeyRight(mm)
    ELSE IF msg.key = "help"  THEN KeyHelp(mm)
    ELSE IF msg.key = "quit"  THEN KeyQuit(mm)
    ELSE Step(mm, FALSE, "running")

\* renderContent: entity decoding, then the html-to-markdown converter and
\* glamour; log.Fatal when either of the two fails, otherwise the styled text
renderContent(item, outcome) ==
    [fatal |-> outcome # "ok", content |-> Styled(item)]

\* mutant: no short-circuit, the pipeline renders an empty entry
RenderNothing_Pipeline(r) ==
    [r EXCEPT !.m.viewport =
                  SetContent(@, [text |-> "styled", html |-> 0, lines |-> 1,
                                 width |-> GlamourDefaultWidth]),
              !.m.ready = TRUE,
              !.stages = TRUE]

\* content = "No content here!", then SetContent and ready = true
RenderNothing(r) ==
    [r EXCEPT !.m.viewport = SetContent(@, Placeholder),
              !.m.ready = TRUE]

\* mutant: a failed stage is replaced by the placeholder and the session
\* goes on
RenderItem_Fallback(r, outcome) ==
    LET mm   == r.m
        item == CurrentFeed(mm).Items[mm.feedIndex + 1]
        out  == renderContent(item, outcome)
    IN  [r EXCEPT !.m.viewport =
                      SetContent(@, IF out.fatal THEN Placeholder
                                    ELSE out.content),
                  !.m.ready = TRUE,
                  !.stages = TRUE]

\* content = renderContent(item...), then SetContent and ready = true
RenderItem(r, outcome) ==
    LET mm   == r.m
        item == CurrentFeed(mm).Items[mm.feedIndex + 1]
        out  == renderContent(item, outcome)
    IN  IF out.fatal
        THEN [r EXCEPT !.status = "fatal", !.stages = TRUE]
        ELSE [r EXCEPT !.m.viewport = SetContent(@, out.content),
                       !.m.ready = TRUE,
                       !.stages = TRUE]

\* if rerender { ... }
Rerender(r, outcome) ==
    IF ~InRange(r.m) THEN [r EXCEPT !.status = "panic"]
    ELSE IF r.m.feedIndex >= FeedLen(CurrentFeed(r.m))
    THEN RenderNothing(r)
    ELSE RenderItem(r, outcome)

\* the whole of Update; a handler that ended early keeps the assignments
\* it had made
Update(mm, msg, outcome) ==
    LET r1 == Dispatch(mm, msg)
        r2 == IF r1.status = "running" /\ r1.rerender
              THEN Rerender(r1, outcome) ELSE r1
    IN  IF r2.status = "running"
        THEN [r2 EXCEPT !.m.viewport = ViewportUpdate(@, msg)]
        ELSE r2

---------------------------------------------------------------------------
(* model.View and the layout helpers *)

\* "Last updated " + Format("2006-01-02 15:04:05 MST"), with a
\* three-letter zone
LastUpdatedTextLen == 36
\* fmt.Sprintf("%3.f%%", ...) of a value in 0..100
ProgressTextLen == 4

RECURSIVE SumLen(_)
SumLen(names) ==
    IF names = <<>> THEN 0 ELSE Len(Head(names)) + SumLen(Tail(names))

\* len(strings.Join(authors, ", "))
JoinLen(authors) ==
    IF authors = <<>> THEN 0
    ELSE SumLen(authors) + 2 * (Len(authors) - 1)

Digits(n) == IF n < 10 THEN 1 ELSE 2

\* len(fmt.Sprintf("%d/%d articles", a, b))
CounterTextLen(a, b) == Digits(a) + 1 + Digits(b) + Len(" articles")

\* lipgloss.Width of a segment rendered with the horizontal paddings (a
\* border side without a border style draws nothing)
Padded(mm, textLen) == mm.horzPadding + textLen + mm.horzPadding

\* lipgloss Style.Width(n).Render(""): n spaces, nothing when n <= 0
SpacerWidth(n) == IF n > 0 THEN n ELSE 0

\* viewport.ScrollPercent, as the footer prints it ("%3.f" of 100 times it)
ScrollPercent(vp) ==
    IF vp.Height >= vp.content.lines THEN 100
    ELSE LET d == vp.content.lines - vp.Height
             p == (200 * vp.YOffset + d) \div (2 * d)
         IN  Max(0, Min(100, p))

assembleHeader(title, mm) ==
    [title |-> title, height |-> mm.vertPadding + 1 + mm.vertPadding]

assembleFooter(authors, publishedTime, mm) ==
    LET progress == Padded(mm, ProgressTextLen)
        counter  == Padded(mm, CounterTextLen(mm.feedIndex,
                               getFeedLengthOrZero(CurrentFeed(mm))))
        authorsW == Padded(mm, JoinLen(authors))
        timeW    == Padded(mm, LastUpdatedTextLen)
        consumedWidth == progress + counter + authorsW + timeW
        spacer   == SpacerWidth(mm.viewport.Width - consumedWidth)
    IN  [percent  |-> ScrollPercent(mm.viewport),
         index    |-> mm.feedIndex,
         count    |-> getFeedLengthOrZero(CurrentFeed(mm)),
         authors  |-> authors,
         time     |-> publishedTime,
         consumed |-> consumedWidth,
         spacer   |-> spacer,
         width    |-> consumedWidth + spacer,
         height   |-> 1]

\* mutant: the two checks in the other order, published wins
lastUpdatedDate_PublishedWins(item) ==
    LET d0 == Epoch
        d1 == IF item.UpdatedParsed # Nil THEN item.UpdatedParsed ELSE d0
        d2 == IF item.PublishedParsed # Nil THEN item.PublishedParsed ELSE d1
    IN  d2

\* the "last updated" date View picks for an item
lastUpdatedDate(item) ==
    LET d0 == Epoch
        d1 == IF item.PublishedParsed # Nil THEN item.PublishedParsed ELSE d0
        d2 == IF item.UpdatedParsed # Nil THEN item.UpdatedParsed ELSE d1
    IN  d2

\* viewport.View: Height lines of the content from YOffset on
ViewportView(vp) ==
    [content |-> vp.content, YOffset |-> vp.YOffset, Height |-> vp.Height]

\* the lines of fmt.Sprintf("%s\n%s\n%s", header, viewport, footer): the
\* viewport's View is Height lines, and one empty line when Height is not
\* positive
FrameLines(frame) ==
    frame.header.height + Max(1, frame.body.Height) + frame.footer.height

\* the header, the viewport and the footer, one under the other
ReadingFrame(mm) ==
    IF ~InRange(mm) THEN [kind |-> "panic"]
    ELSE IF mm.feedIndex < FeedLen(CurrentFeed(mm))
    THEN LET item == CurrentFeed(mm).Items[mm.feedIndex + 1]
         IN  [kind   |-> "reading",
              header |-> assembleHeader(item.Title, mm),
              body   |-> ViewportView(mm.viewport),
              footer |-> assembleFooter(item.Authors, lastUpdatedDate(item), mm)]
    ELSE [kind   |-> "reading",
          header |-> assembleHeader("No content", mm),
          body   |-> ViewportView(mm.viewport),
          footer |-> assembleFooter(<<>>, Epoch, mm)]

\* mutant: the help flag is not looked at
View_NoHelp(mm) ==
    IF ~mm.ready THEN [kind |-> "loading"]
    ELSE ReadingFrame(mm)

View(mm) ==
    IF ~mm.ready THEN [kind |-> "loading"]
    ELSE IF mm.help.ShowAll THEN [kind |-> "help", width |-> mm.help.Width]
    ELSE ReadingFrame(mm)

---------------------------------------------------------------------------
(* The session: main's starter model and the events of the program *)

Outcomes == {"ok", "ConversionError", "RenderError"}

\* the pipeline's outcome is an input of the steps that run it
OutcomesFor(mm, msg) ==
    IF Dispatch(mm, msg).rerender THEN Outcomes ELSE {"ok"}

StarterModel(feedSlice, hp, vp) ==
    [feedSlice      |-> feedSlice,
     feedSliceIndex |-> 0,
     feedIndex      |-> 0,
     ready          |-> FALSE,
     viewport       |-> ZeroViewport,
     help           |-> [ShowAll |-> FALSE, Width |-> 0],
     horzPadding    |-> hp,
     vertPadding    |-> vp]

Init ==
    /\ \E fs \in FeedCollections, hp \in HorzPaddings, vp \in VertPaddings :
           m = StarterModel(fs, hp, vp)
    /\ status = "running"
    /\ rerender = FALSE
    /\ term \in [Width : Widths, Height : Heights]
    /\ resized = FALSE
    /\ stages = FALSE
    /\ rights = [n |-> 0, pure |-> TRUE]

KeyMsg(k) == [type |-> "key", key |-> k]
WindowSizeMsg(w, h) == [type |-> "size", Width |-> w, Height |-> h]

\* one message through Update; nothing is processed once the loop has ended
Process(msg, outcome) ==
    /\ status = "running"
    /\ LET r == Update(m, msg, outcome)
       IN  /\ m' = r.m
           /\ status' = r.status
           /\ rerender' = r.rerender
           /\ stages' = (stages \/ r.stages)

MaxMoves == MaxItems + 1

MoveLeft ==
    /\ \E outcome \in OutcomesFor(m, KeyMsg("left")) :
           Process(KeyMsg("left"), outcome)
    /\ rights' = [n |-> 0, pure |-> FALSE]
    /\ UNCHANGED <<term, resized>>

MoveRight ==
    /\ \E outcome \in OutcomesFor(m, KeyMsg("right")) :
           Process(KeyMsg("right"), outcome)
    /\ rights' = IF rights.pure
                 THEN [rights EXCEPT !.n = Min(@ + 1, MaxMoves)]
                 ELSE rights
    /\ UNCHANGED <<term, resized>>

ToggleHelp ==
    /\ Process(KeyMsg("help"), "ok")
    /\ UNCHANGED <<term, resized, rights>>

Quit ==
    /\ Process(KeyMsg("quit"), "ok")
    /\ UNCHANGED <<term, resized, rights>>

ScrollDown ==
    /\ Process(KeyMsg("down"), "ok")
    /\ UNCHANGED <<term, resized, rights>>

ScrollUp ==
    /\ Process(KeyMsg("up"), "ok")
    /\ UNCHANGED <<term, resized, rights>>

Resize ==
    \E w \in Widths, h \in Heights :
        /\ \E outcome \in OutcomesFor(m, WindowSizeMsg(w, h)) :
               Process(WindowSizeMsg(w, h), outcome)
        /\ term' = [Width |-> w, Height |-> h]
        /\ resized' = TRUE
        /\ UNCHANGED rights

Next ==
    \/ MoveLeft
    \/ MoveRight
    \/ ToggleHelp
    \/ Quit
    \/ ScrollDown
    \/ ScrollUp
    \/ Resize

Spec == Init /\ [][Next]_vars

---------------------------------------------------------------------------
(* Properties *)

\* the session is alive: frames are still composed from m
Live == status \in {"running", "quit"}

ItemCount(mm) == FeedLen(CurrentFeed(mm))

\* C1: with a non-empty feed collection the item index is never negative,
\* never above max(itemCount - 1, 0), and below itemCount when the current
\* feed has items.
C1_IndexInRange ==
    m.feedSlice # <<>> =>
        /\ 0 <= m.feedIndex
        /\ m.feedIndex <= Max(ItemCount(m) - 1, 0)
        /\ (ItemCount(m) > 0 => m.feedIndex < ItemCount(m))

\* MoveRight was issued once more than the feed has items, around a resize
\* and with the help view on, and the index rests on the last item
C1_Witness ==
    /\ InRange(m) /\ ItemCount(m) = MaxItems
    /\ m.feedIndex = MaxItems - 1
    /\ rights.pure /\ rights.n = MaxMoves
    /\ resized /\ m.help.ShowAll

\* C2: MoveRight adds exactly 1 below the last index and nothing at it,
\* MoveLeft takes exactly 1 above index 0 and nothing at it; n MoveRight
\* from index 0 on a feed with items end at min(n, itemCount - 1).
C2_StepByOne ==
    /\ [](InRange(m) /\ ItemCount(m) >= 1 /\ rights.pure
            => m.feedIndex = Min(rights.n, ItemCount(m) - 1))
    /\ [][/\ MoveRight /\ InRange(m) =>
                m'.feedIndex = IF m.feedIndex < ItemCount(m) - 1
                               THEN m.feedIndex + 1 ELSE m.feedIndex
          /\ MoveLeft =>
                m'.feedIndex = IF m.feedIndex > 0
                               THEN m.feedIndex - 1 ELSE m.feedIndex]_vars

\* MoveLeft has brought the index from the last item of a full feed to the
\* one before it
C2_Witness ==
    /\ InRange(m) /\ ItemCount(m) = MaxItems
    /\ m.feedIndex = MaxItems - 2
    /\ ~rights.pure /\ status = "running"

\* C3 (as claimed): with an empty feed collection no event fails, the index
\* stays 0 and after a Resize the session shows the "No content" state.
C3_EmptyCollectionSafe ==
    m.feedSlice = <<>> =>
        /\ Live
        /\ m.feedIndex = 0
        /\ (resized => m.ready /\ m.viewport.content = Placeholder)

\* C4: when the current feed has no items the pipeline stages are never
\* run and nothing fails; from the first Resize on the content is the
\* placeholder, the header reads "No content" and the index stays 0.
C4_EmptyFeedPlaceholder ==
    InRange(m) /\ ItemCount(m) = 0 =>
        /\ Live
        /\ ~stages
        /\ m.feedIndex = 0
        /\ (resized =>
              /\ m.ready
              /\ m.viewport.content = Placeholder
              /\ (~m.help.ShowAll =>
                    /\ View(m).kind = "reading"
                    /\ View(m).header.title = "No content"))

\* an empty feed after the Resize and after MoveRight events
C4_Witness ==
    /\ InRange(m) /\ ItemCount(m) = 0
    /\ resized /\ m.viewport.content = Placeholder
    /\ rights.pure /\ rights.n = MaxMoves
    /\ ~m.help.ShowAll /\ status = "running"

\* C5 (as claimed): as long as no Resize has been processed, ready is false.
C5_ReadyOnlyByResize == ~resized => ~m.ready

\* C6: in every state of a running session Quit can be issued and ends it:
\* the struct (index, help flag, ready flag, viewport content and offset)
\* is as before, nothing is re-rendered, and once the session has quit no
\* event is processed.
C6_QuitFromAnywhere ==
    /\ status = "running" =>
          ENABLED (Quit /\ status' = "quit" /\ m' = m /\ ~rerender')
    /\ status = "quit" => ~ENABLED Next

\* the session was quit from the help view with the content scrolled
C6_Witness ==
    /\ status = "quit"
    /\ m.ready /\ m.help.ShowAll
    /\ m.viewport.YOffset > 0

\* C7: ToggleHelp flips help.ShowAll and changes nothing else, without a
\* re-render; a second ToggleHelp gives back the state before the first,
\* and from a reading frame the first shows the help view and the second
\* the same reading frame again.
C7_ToggleHelpOnlyHelp ==
    status = "running" =>
        LET r1 == Update(m, KeyMsg("help"), "ok")
            r2 == Update(r1.m, KeyMsg("help"), "ok")
        IN  /\ ENABLED (ToggleHelp /\ m' = r1.m /\ ~rerender'
                          /\ status' = "running")
            /\ r1.m = [m EXCEPT !.help.ShowAll = ~m.help.ShowAll]
            /\ r2.m = m /\ ~r2.rerender /\ r2.status = "running"
            /\ (m.ready /\ ~m.help.ShowAll =>
                  /\ View(r1.m).kind = "help"
                  /\ View(r2.m) = View(m))

\* the help view is on over a reading frame whose content is scrolled
C7_Witness ==
    /\ status = "running"
    /\ m.ready /\ m.help.ShowAll
    /\ m.viewport.YOffset > 0
    /\ ~rerender

\* the messages Update can be handed
Msgs ==
    {KeyMsg(k) : k \in {"left", "right", "help", "quit", "down", "up"}}
    \cup {WindowSizeMsg(w, h) : w \in Widths, h \in Heights}

\* C8: whenever an event makes Update render an item and the conversion or
\* the rendering stage fails, the session ends there as fatal: the viewport
\* content and offset and the ready flag are as before the event, the index
\* is that of the failing entry, and a session ended as fatal processes no
\* further event.
C8_FailureIsFatal ==
    /\ status = "running" =>
          \A msg \in Msgs, o \in Outcomes \ {"ok"} :
              LET d == Dispatch(m, msg)
                  r == Update(m, msg, o)
              IN  (/\ d.status = "running" /\ d.rerender
                   /\ InRange(d.m) /\ d.m.feedIndex < ItemCount(d.m))
                  => /\ r.status = "fatal"
                     /\ r.m.viewport.content = m.viewport.content
                     /\ r.m.viewport.YOffset = m.viewport.YOffset
                     /\ r.m.ready = m.ready
                     /\ r.m.feedIndex = d.m.feedIndex
    /\ status = "fatal" =>
          /\ ~ENABLED Next
          /\ m.viewport.content.text # "No content here!"

\* a failure on a later entry: the session is fatal and the viewport still
\* holds the scrolled content of the entry shown before
C8_Witness ==
    /\ status = "fatal"
    /\ m.ready
    /\ m.viewport.content.text = "styled"
    /\ m.viewport.YOffset > 0
    /\ m.viewport.content.html
         # CurrentFeed(m).Items[m.feedIndex + 1].html

\* C9 (as claimed): in every Ready state the footer is as wide as the
\* terminal when the terminal is at least as wide as the four segments
\* together, and as wide as the four segments, with an empty filler, when
\* it is narrower.
C9_FooterSpansTerminal ==
    Live /\ m.ready /\ View(m).kind = "reading" =>
        LET f == View(m).footer
            W == term.Width
            S == f.consumed
        IN  /\ f.spacer >= 0
            /\ (W >= S => f.width = W)
            /\ (W < S => f.spacer = 0 /\ f.width = S)

\* C10: the footer's time is the item's updated time when it has one,
\* otherwise its published time when it has one, otherwise the epoch; the
\* authors are the item's; with no item under the index the footer gets the
\* epoch and no authors.
C10_LastUpdated ==
    Live /\ View(m).kind = "reading" =>
        LET f == View(m).footer
        IN  IF m.feedIndex < ItemCount(m)
            THEN LET item == CurrentFeed(m).Items[m.feedIndex + 1]
                 IN  /\ f.authors = item.Authors
                     /\ f.time = IF item.UpdatedParsed # Nil
                                 THEN item.UpdatedParsed
                                 ELSE IF item.PublishedParsed # Nil
                                 THEN item.PublishedParsed
                                 ELSE Epoch
            ELSE f.authors = <<>> /\ f.time = Epoch

\* a reading frame over an item that has both timestamps, after moving to it
C10_Witness ==
    /\ status = "running" /\ View(m).kind = "reading"
    /\ m.feedIndex > 0 /\ m.feedIndex < ItemCount(m)
    /\ CurrentFeed(m).Items[m.feedIndex + 1].UpdatedParsed # Nil
    /\ CurrentFeed(m).Items[m.feedIndex + 1].PublishedParsed # Nil
    /\ View(m).footer.time = CurrentFeed(m).Items[m.feedIndex + 1].UpdatedParsed

\* C11: the feed-collection index is 0 in every state; whatever the number
\* of feeds, the item index is bounded by the first feed, the viewport
\* content is the rendering of one of the first feed's items, and the
\* frame's title and article counter are taken from the first feed.
C11_FirstFeedOnly ==
    /\ m.feedSliceIndex = 0
    /\ m.feedSlice # <<>> =>
          LET first == m.feedSlice[1]
          IN  /\ m.feedIndex <= Max(FeedLen(first) - 1, 0)
              /\ (m.viewport.content.text = "styled" =>
                    \E i \in DOMAIN first.Items :
                        m.viewport.content.html = first.Items[i].html)
              /\ (Live /\ View(m).kind = "reading" =>
                    /\ View(m).footer.count = Max(FeedLen(first) - 1, 0)
                    /\ View(m).header.title \in
                          {"No content"} \cup
                          {first.Items[i].Title : i \in DOMAIN first.Items})

\* two feeds, the first with one item and the second with more: MoveRight
\* was issued and the frame still shows the first feed's only item
C11_Witness ==
    /\ Len(m.feedSlice) = MaxFeeds
    /\ FeedLen(m.feedSlice[1]) = 1
    /\ FeedLen(m.feedSlice[2]) > 1
    /\ m.feedSlice[1].Items[1].html # m.feedSlice[2].Items[1].html
    /\ rights.pure /\ rights.n = MaxMoves
    /\ status = "running" /\ View(m).kind = "reading"
    /\ m.feedIndex = 0

\* C12: in every Ready state the viewport content is the rendering of the
\* item under the index, or the placeholder when, and only when, the current
\* feed has no items; the title, the body and the footer of the reading
\* frame are those of that same item.
C12_ContentIsCurrentItem ==
    Live /\ m.ready /\ InRange(m) =>
        IF ItemCount(m) = 0
        THEN m.viewport.content = Placeholder
        ELSE /\ m.feedIndex < ItemCount(m)
             /\ LET item == CurrentFeed(m).Items[m.feedIndex + 1]
                IN  /\ m.viewport.content = Styled(item)
                    /\ m.viewport.content # Placeholder
                    /\ (View(m).kind = "reading" =>
                          /\ View(m).header.title = item.Title
                          /\ View(m).body.content = Styled(item)
                          /\ View(m).footer.index = m.feedIndex
                          /\ View(m).footer.authors = item.Authors)

\* after moving right and back left in a full feed, with the content
\* scrolled, the reading frame shows the item under the index
C12_Witness ==
    /\ status = "running" /\ View(m).kind = "reading"
    /\ ItemCount(m) = MaxItems
    /\ m.feedIndex > 0 /\ ~rights.pure
    /\ m.viewport.YOffset > 0
    /\ m.viewport.content = Styled(CurrentFeed(m).Items[m.feedIndex + 1])

\* C13 (as claimed): whenever help.ShowAll is true the composed frame is the
\* help view, in every state, Loading included.
C13_HelpAlways ==
    Live /\ m.help.ShowAll => View(m).kind = "help"

\* C13 (amended): whenever help.ShowAll is true and the session is ready the
\* composed frame is the help view and nothing else; as long as it is not
\* ready the frame is the loading text, whatever the help flag.
C13_HelpWhenReady ==
    Live =>
        /\ (m.help.ShowAll /\ m.ready =>
              View(m) = [kind |-> "help", width |-> m.help.Width])
        /\ (~m.ready => View(m) = [kind |-> "loading"])

\* the help view over a later item of a resized, ready session
C13_Witness ==
    /\ status = "running"
    /\ m.help.ShowAll /\ m.ready /\ resized
    /\ m.feedIndex > 0
    /\ View(m).kind = "help"

\* C14 (as claimed): the viewport's width and height are never negative,
\* also after a Resize to a terminal lower than the header and footer
\* together.
C14_ViewportNonNegative ==
    /\ m.viewport.Width >= 0
    /\ m.viewport.Height >= 0

\* C15 (as claimed): the scroll offset is never below 0 and never above
\* max(0, content lines - viewport height), also after a Resize that makes
\* the viewport higher.
C15_OffsetInBounds ==
    /\ 0 <= m.viewport.YOffset
    /\ m.viewport.YOffset <=
          Max(0, m.viewport.content.lines - m.viewport.Height)

\* C16 (as claimed): right after an Update that replaced the viewport
\* content (the first Resize, or a MoveLeft or MoveRight that changed the
\* index) the scroll offset is 0.
C16_ReplaceResetsScroll ==
    status = "running" /\ rerender => m.viewport.YOffset = 0

\* C17: MoveLeft at index 0, and MoveRight at the last index of the current
\* feed, end without an error and leave the whole struct (index, help flag,
\* ready flag, viewport content and offset) as it was, with nothing
\* re-rendered.
C17_EdgeMovesAreNoOps ==
    status = "running" =>
        LET same == [m |-> m, rerender |-> FALSE, status |-> "running",
                     stages |-> FALSE]
        IN  /\ m.feedIndex = 0 =>
                  /\ \A o \in Outcomes : Update(m, KeyMsg("left"), o) = same
                  /\ ENABLED (MoveLeft /\ m' = m /\ ~rerender'
                                /\ status' = "running")
            /\ InRange(m) /\ m.feedIndex = Max(ItemCount(m) - 1, 0) =>
                  /\ \A o \in Outcomes : Update(m, KeyMsg("right"), o) = same
                  /\ ENABLED (MoveRight /\ m' = m /\ ~rerender'
                                /\ status' = "running")

\* MoveRight was issued past the last item of a full feed whose content is
\* scrolled, and the session runs on with index and offset in place
C17_Witness ==
    /\ status = "running" /\ m.ready /\ ~rerender
    /\ ItemCount(m) = MaxItems /\ m.feedIndex = MaxItems - 1
    /\ rights.pure /\ rights.n = MaxMoves
    /\ m.viewport.YOffset > 0

\* C18 (as claimed): in every Ready state the rendered content was wrapped
\* at the viewport's current width, also after a Resize that changes the
\* width and not the selection.
C18_RenderedAtViewportWidth ==
    Live /\ m.ready /\ m.viewport.content.text = "styled" =>
        m.viewport.content.width = m.viewport.Width

\* C19 (as claimed): after a Resize to a terminal of 6 rows or more the
\* reading frame has as many lines as the terminal has rows: the header and
\* the footer take their 3 rows each and the viewport the rest.
C19_FrameFillsTerminal ==
    Live /\ resized /\ term.Height >= headerHeight + footerHeight
         /\ View(m).kind = "reading" =>
        /\ View(m).header.height = headerHeight
        /\ View(m).footer.height = footerHeight
        /\ FrameLines(View(m)) = term.Height

\* the model with the help flag the other way round
HelpFlipped(mm) == [mm EXCEPT !.help.ShowAll = ~@]

\* C20: MoveLeft and MoveRight do the same to the index, the viewport, the
\* ready flag and the outcome of the step whether the help view is shown or
\* not, and leave the help flag as it was; from a reading frame at an index
\* before the last, ToggleHelp, MoveRight, ToggleHelp ends in a reading
\* frame that shows the next item.
C20_NavigationIgnoresHelp ==
    status = "running" =>
        /\ \A k \in {"left", "right"}, o \in Outcomes :
               LET a == Update(m, KeyMsg(k), o)
                   b == Update(HelpFlipped(m), KeyMsg(k), o)
               IN  /\ a.status = b.status
                   /\ a.rerender = b.rerender
                   /\ a.m.feedIndex = b.m.feedIndex
                   /\ a.m.viewport = b.m.viewport
                   /\ a.m.ready = b.m.ready
                   /\ a.m.help.ShowAll = m.help.ShowAll
                   /\ b.m.help.ShowAll = ~m.help.ShowAll
        /\ (View(m).kind = "reading" /\ m.feedIndex < ItemCount(m) - 1 =>
               LET s1   == Update(m, KeyMsg("help"), "ok")
                   s2   == Update(s1.m, KeyMsg("right"), "ok")
                   s3   == Update(s2.m, KeyMsg("help"), "ok")
                   next == CurrentFeed(m).Items[m.feedIndex + 2]
               IN  /\ View(s1.m).kind = "help"
                   /\ s2.status = "running" /\ s2.rerender
                   /\ s2.m.feedIndex = m.feedIndex + 1
                   /\ View(s2.m).kind = "help"
                   /\ s3.status = "running"
                   /\ View(s3.m).kind = "reading"
                   /\ View(s3.m).header.title = next.Title
                   /\ View(s3.m).body.content = Styled(next)
                   /\ View(s3.m).footer.index = m.feedIndex + 1)

\* MoveRight was issued once with the help view shown, in a resized session:
\* the index moved on and the viewport holds the second item
C20_Witness ==
    /\ status = "running" /\ rerender
    /\ m.help.ShowAll /\ View(m).kind = "help" /\ resized
    /\ rights.pure /\ rights.n = 1 /\ m.feedIndex = 1
    /\ m.viewport.content = Styled(CurrentFeed(m).Items[2])

===========================================================================
